---- MODULE Spec2Model ----
(***************************************************************************)
(* Model of hammer-core: the optimizer (optimizer.rs), the gas model       *)
(* (gas.rs), the warm set (warm.rs), the validator (validator.rs), the     *)
(* tracer (tracer.rs) and the library entry points (lib.rs).               *)
(*                                                                         *)
(* Addresses and storage keys are big-endian byte strings in the source;   *)
(* addr(n) / slot(n) of the unit tests put n in the last byte, so byte     *)
(* order is numeric order and both are modelled as naturals.               *)
(* A BTreeSet is a set, a BTreeMap a function whose DOMAIN is its key set; *)
(* iterating either one yields ascending order (SetToSeq).  A Vec is a     *)
(* sequence.  All u64 arithmetic stays far below 2^64 within the bounds.   *)
(***************************************************************************)
EXTENDS Integers, Sequences, FiniteSets, TLC

VARIABLES pc, tx_from, tx_to, coinbase, raw, optimal, reoptimized,
          declared, report, cost, env, calls,
          wire, inspector, cli, db

vars == <<pc, tx_from, tx_to, coinbase, raw, optimal, reoptimized,
          declared, report, cost, env, calls,
          wire, inspector, cli, db>>

(* ------------------------------ bounds --------------------------------- *)

\* largest address of the universe (the universe is {0, 10} \cup 11..MaxAddr)
MaxAddr == 12
\* storage keys are 1..MaxSlot
MaxSlot == 2
\* longest access list (number of items)
MaxItems == 2
\* longest storage_keys vector of one item
MaxKeys == 2
\* most contracts created during one trace
MaxCreated == 2

(* ------------------------- program constants --------------------------- *)

ZERO == 0
PRECOMPILE_FIRST == 1
PRECOMPILE_LAST == 10

ACCESS_LIST_ADDRESS_COST == 2400
ACCESS_LIST_STORAGE_KEY_COST == 1900
COLD_ACCOUNT_ACCESS_COST == 2600
COLD_SLOAD_COST == 2100
WARM_STORAGE_READ_COST == 100
\* gas.rs 20-29
NET_SAVINGS_PER_ACCESSED_SLOT ==
    COLD_SLOAD_COST - WARM_STORAGE_READ_COST - ACCESS_LIST_STORAGE_KEY_COST
NET_SAVINGS_PER_ACCESSED_ADDRESS ==
    COLD_ACCOUNT_ACCESS_COST - ACCESS_LIST_ADDRESS_COST

(* ------------------------------ helpers -------------------------------- *)

Range(s) == {s[i] : i \in DOMAIN s}

Min(S) == CHOOSE x \in S : \A y \in S : x <= y

\* iteration order of a BTreeSet / of the keys of a BTreeMap: ascending
RECURSIVE SetToSeq(_)
SetToSeq(S) == IF S = {} THEN <<>>
               ELSE <<Min(S)>> \o SetToSeq(S \ {Min(S)})

\* BTreeMap::new()
EmptyMap == [a \in {} |-> {}]

\* map.entry(addr).or_default().extend(slots)
EntryExtend(map, addr, slots) ==
    [a \in DOMAIN map \cup {addr} |->
        IF a = addr
        THEN (IF addr \in DOMAIN map THEN map[addr] ELSE {}) \cup slots
        ELSE map[a]]

\* sequences over S of length at most n
SeqsUpTo(S, n) == UNION {[1..k -> S] : k \in 0..n}

\* sequences without repetition
Injective(s) == \A i, j \in DOMAIN s : i # j => s[i] # s[j]

(* ------------------------------ universe ------------------------------- *)

Addresses == {ZERO, PRECOMPILE_LAST} \cup ((PRECOMPILE_LAST + 1)..MaxAddr)
Slots == 1..MaxSlot

AccessListItems == [address : Addresses, storage_keys : SeqsUpTo(Slots, MaxKeys)]
AccessLists == SeqsUpTo(AccessListItems, MaxItems)

\* addresses a CREATE/CREATE2 can yield: never zero, never a precompile
Creatable == (PRECOMPILE_LAST + 1)..MaxAddr
\* the Vec collected from the inspector's HashSet: distinct, in any order
CreatedVecs == {s \in SeqsUpTo(Creatable, MaxCreated) : Injective(s)}

(* ------------------------------ warm.rs -------------------------------- *)

precompile_addresses_incl_zero == (PRECOMPILE_FIRST - 1)..PRECOMPILE_LAST

precompile_addresses == PRECOMPILE_FIRST..PRECOMPILE_LAST

(* ---------------------------- optimizer.rs ----------------------------- *)

\* optimizer.rs 23-26
warm_by_default(from, to, cb) == {a \in {from, to, cb} : a # ZERO}

\* optimizer.rs 34-45: the three strip tests of the loop body
IsStripped_no_created(addr, warm, created_set) ==
    \/ addr \in warm
    \/ addr \in precompile_addresses

IsStripped(addr, warm, created_set) ==
    \/ addr \in warm
    \/ addr \in precompile_addresses
    \/ addr \in created_set

\* optimizer.rs 47-50: what a kept item does to the map
MergeItem_overwrite(optimized, addr, keys) ==
    [a \in DOMAIN optimized \cup {addr} |->
        IF a = addr THEN Range(keys) ELSE optimized[a]]

MergeItem(optimized, addr, keys) ==
    LET slots == Range(keys) IN
    IF slots # {} \/ addr \notin DOMAIN optimized
    THEN EntryExtend(optimized, addr, slots)
    ELSE optimized

\* optimizer.rs 31-51: the loop over raw.access_list, from item i on
RECURSIVE OptimizeLoop(_, _, _, _, _, _)
OptimizeLoop(items, i, warm, created_set, removed, optimized) ==
    IF i > Len(items)
    THEN [removed |-> removed, optimized |-> optimized]
    ELSE LET addr == items[i].address IN
         IF IsStripped(addr, warm, created_set)
         THEN OptimizeLoop(items, i + 1, warm, created_set,
                           Append(removed, addr), optimized)
         ELSE OptimizeLoop(items, i + 1, warm, created_set, removed,
                           MergeItem(optimized, addr, items[i].storage_keys))

\* optimizer.rs 53-61: BTreeMap -> AccessList
RECURSIVE SetToSeqDescending(_)
SetToSeqDescending(S) ==
    IF S = {} THEN <<>>
    ELSE LET m == CHOOSE x \in S : \A y \in S : x >= y
         IN <<m>> \o SetToSeqDescending(S \ {m})
MapToList_descending(optimized) ==
    LET addrs == SetToSeqDescending(DOMAIN optimized) IN
    [k \in 1..Len(addrs) |->
        [address |-> addrs[k], storage_keys |-> SetToSeq(optimized[addrs[k]])]]

MapToList(optimized) ==
    LET addrs == SetToSeq(DOMAIN optimized) IN
    [k \in 1..Len(addrs) |->
        [address |-> addrs[k], storage_keys |-> SetToSeq(optimized[addrs[k]])]]

optimize_first_created_only(r, from, to, cb) ==
    LET created_set == IF r.created_contracts = <<>> THEN {}
                       ELSE {r.created_contracts[1]}
        warm == warm_by_default(from, to, cb)
        out == OptimizeLoop(r.access_list, 1, warm, created_set, <<>>, EmptyMap)
    IN [list |-> MapToList(out.optimized), removed_addresses |-> out.removed]

optimize_skip_first(r, from, to, cb) ==
    LET created_set == Range(r.created_contracts)
        warm == warm_by_default(from, to, cb)
        out == OptimizeLoop(r.access_list, 2, warm, created_set, <<>>, EmptyMap)
    IN [list |-> MapToList(out.optimized), removed_addresses |-> out.removed]

\* optimizer.rs 14-64
optimize(r, from, to, cb) ==
    LET created_set == Range(r.created_contracts)
        warm == warm_by_default(from, to, cb)
        out == OptimizeLoop(r.access_list, 1, warm, created_set, <<>>, EmptyMap)
    IN [list |-> MapToList(out.optimized), removed_addresses |-> out.removed]

(* ------------------------------- gas.rs -------------------------------- *)

\* gas.rs 36-41: the loop of access_list_gas_cost, from item i on
RECURSIVE GasLoop_every_item(_, _, _, _)
GasLoop_every_item(list, i, seen_addresses, acc) ==
    IF i > Len(list) THEN acc
    ELSE GasLoop_every_item(list, i + 1, seen_addresses \cup {list[i].address},
             acc + ACCESS_LIST_ADDRESS_COST
                 + Len(list[i].storage_keys) * ACCESS_LIST_STORAGE_KEY_COST)

RECURSIVE GasLoop(_, _, _, _)
GasLoop(list, i, seen_addresses, acc) ==
    IF i > Len(list) THEN acc
    ELSE GasLoop(list, i + 1, seen_addresses \cup {list[i].address},
             acc + (IF list[i].address \in seen_addresses THEN 0
                    ELSE ACCESS_LIST_ADDRESS_COST)
                 + Len(list[i].storage_keys) * ACCESS_LIST_STORAGE_KEY_COST)

access_list_gas_cost_every_item(list) == GasLoop_every_item(list, 1, {}, 0)

\* gas.rs 32-43
access_list_gas_cost(list) == GasLoop(list, 1, {}, 0)

(* ---------------------------- validator.rs ----------------------------- *)

\* the five variants of DiffEntry (types.rs), tagged by kind
Duplicate(address, storage_key, gas_waste) ==
    [kind |-> "duplicate", address |-> address, storage_key |-> storage_key,
     gas_waste |-> gas_waste]
Redundant(address, gas_waste) ==
    [kind |-> "redundant", address |-> address, gas_waste |-> gas_waste]
Incomplete(address, missing_slots, gas_waste) ==
    [kind |-> "incomplete", address |-> address, missing_slots |-> missing_slots,
     gas_waste |-> gas_waste]
Stale(address, storage_keys, gas_waste) ==
    [kind |-> "stale", address |-> address, storage_keys |-> storage_keys,
     gas_waste |-> gas_waste]
Missing(address, storage_keys, gas_waste) ==
    [kind |-> "missing", address |-> address, storage_keys |-> storage_keys,
     gas_waste |-> gas_waste]

\* validator.rs 30-38: the loop over item.storage_keys, from key k on;
\* addr_slots.insert(slot) is false when the slot was already seen
RECURSIVE ScanKeys_adjacent_only(_, _, _, _, _)
ScanKeys_adjacent_only(address, keys, k, addr_slots, dups) ==
    IF k > Len(keys)
    THEN [addr_slots |-> addr_slots, dups |-> dups]
    ELSE IF k > 1 /\ keys[k] = keys[k - 1]
         THEN ScanKeys_adjacent_only(address, keys, k + 1, addr_slots,
                  Append(dups, Duplicate(address, keys[k],
                                         ACCESS_LIST_STORAGE_KEY_COST)))
         ELSE ScanKeys_adjacent_only(address, keys, k + 1,
                  addr_slots \cup {keys[k]}, dups)

RECURSIVE ScanKeys(_, _, _, _, _)
ScanKeys(address, keys, k, addr_slots, dups) ==
    IF k > Len(keys)
    THEN [addr_slots |-> addr_slots, dups |-> dups]
    ELSE IF keys[k] \in addr_slots
         THEN ScanKeys(address, keys, k + 1, addr_slots,
                       Append(dups, Duplicate(address, keys[k],
                                              ACCESS_LIST_STORAGE_KEY_COST)))
         ELSE ScanKeys(address, keys, k + 1, addr_slots \cup {keys[k]}, dups)

RECURSIVE ScanItems_fresh_per_item(_, _, _, _)
ScanItems_fresh_per_item(list, i, seen_slots, dups) ==
    IF i > Len(list)
    THEN [seen_slots |-> seen_slots, duplicate_entries |-> dups]
    ELSE LET a == list[i].address
             before == IF a \in DOMAIN seen_slots THEN seen_slots[a] ELSE {}
             r == ScanKeys(a, list[i].storage_keys, 1, {}, dups)
         IN ScanItems_fresh_per_item(list, i + 1,
                      [x \in DOMAIN seen_slots \cup {a} |->
                          IF x = a THEN before \cup r.addr_slots
                          ELSE seen_slots[x]],
                      r.dups)

\* validator.rs 28-39: the loop over the declared items, from item i on
RECURSIVE ScanItems(_, _, _, _)
ScanItems(list, i, seen_slots, dups) ==
    IF i > Len(list)
    THEN [seen_slots |-> seen_slots, duplicate_entries |-> dups]
    ELSE LET a == list[i].address
             before == IF a \in DOMAIN seen_slots THEN seen_slots[a] ELSE {}
             r == ScanKeys(a, list[i].storage_keys, 1, before, dups)
         IN ScanItems(list, i + 1,
                      [x \in DOMAIN seen_slots \cup {a} |->
                          IF x = a THEN r.addr_slots ELSE seen_slots[x]],
                      r.dups)

\* validator.rs 43-51: collecting (address, slots) pairs into a BTreeMap;
\* a later pair with the same address replaces the earlier one
OptimalMap(list) ==
    LET addrs == {list[i].address : i \in DOMAIN list}
        last(a) == CHOOSE i \in DOMAIN list :
                      /\ list[i].address = a
                      /\ \A j \in DOMAIN list : list[j].address = a => j <= i
    IN [a \in addrs |-> Range(list[last(a)].storage_keys)]

IsWarmDeclared_no_precompile(addr, from, to, cb) ==
    addr = from \/ addr = to \/ addr = cb

\* validator.rs 56
IsWarmDeclared(addr, from, to, cb) ==
    addr = from \/ addr = to \/ addr = cb \/ addr \in precompile_addresses

\* validator.rs 57-58 (and 87-88)
RedundantWaste(decl_slots) ==
    ACCESS_LIST_ADDRESS_COST
        + Cardinality(decl_slots) * ACCESS_LIST_STORAGE_KEY_COST

ClassifyDeclared_stale_slots_with_address(addr, decl_slots, optimal_map, from, to, cb) ==
    IF IsWarmDeclared(addr, from, to, cb)
    THEN <<Redundant(addr, RedundantWaste(decl_slots))>>
    ELSE IF addr \in DOMAIN optimal_map
    THEN LET opt_slots == optimal_map[addr]
             missing == SetToSeq(opt_slots \ decl_slots)
             stale == SetToSeq(decl_slots \ opt_slots)
         IN (IF missing # <<>>
             THEN <<Incomplete(addr, missing,
                       Len(missing) * (COLD_SLOAD_COST - WARM_STORAGE_READ_COST))>>
             ELSE <<>>)
            \o
            (IF stale # <<>>
             THEN <<Stale(addr, stale, ACCESS_LIST_ADDRESS_COST
                              + Len(stale) * ACCESS_LIST_STORAGE_KEY_COST)>>
             ELSE <<>>)
    ELSE <<Stale(addr, SetToSeq(decl_slots),
                 ACCESS_LIST_ADDRESS_COST
                     + Cardinality(decl_slots) * ACCESS_LIST_STORAGE_KEY_COST)>>
ClassifyDeclared_stale_address_slots_only(addr, decl_slots, optimal_map, from, to, cb) ==
    IF IsWarmDeclared(addr, from, to, cb)
    THEN <<Redundant(addr, RedundantWaste(decl_slots))>>
    ELSE IF addr \in DOMAIN optimal_map
    THEN LET opt_slots == optimal_map[addr]
             missing == SetToSeq(opt_slots \ decl_slots)
             stale == SetToSeq(decl_slots \ opt_slots)
         IN (IF missing # <<>>
             THEN <<Incomplete(addr, missing,
                       Len(missing) * (COLD_SLOAD_COST - WARM_STORAGE_READ_COST))>>
             ELSE <<>>)
            \o
            (IF stale # <<>>
             THEN <<Stale(addr, stale, Len(stale) * ACCESS_LIST_STORAGE_KEY_COST)>>
             ELSE <<>>)
    ELSE <<Stale(addr, SetToSeq(decl_slots),
                 Cardinality(decl_slots) * ACCESS_LIST_STORAGE_KEY_COST)>>

\* validator.rs 56-94: the entries pushed for one declared address
ClassifyDeclared(addr, decl_slots, optimal_map, from, to, cb) ==
    IF IsWarmDeclared(addr, from, to, cb)
    THEN <<Redundant(addr, RedundantWaste(decl_slots))>>
    ELSE IF addr \in DOMAIN optimal_map
    THEN LET opt_slots == optimal_map[addr]
             missing == SetToSeq(opt_slots \ decl_slots)
             stale == SetToSeq(decl_slots \ opt_slots)
         IN (IF missing # <<>>
             THEN <<Incomplete(addr, missing,
                       Len(missing) * (COLD_SLOAD_COST - WARM_STORAGE_READ_COST))>>
             ELSE <<>>)
            \o
            (IF stale # <<>>
             THEN <<Stale(addr, stale, Len(stale) * ACCESS_LIST_STORAGE_KEY_COST)>>
             ELSE <<>>)
    ELSE <<Stale(addr, SetToSeq(decl_slots),
                 ACCESS_LIST_ADDRESS_COST
                     + Cardinality(decl_slots) * ACCESS_LIST_STORAGE_KEY_COST)>>

\* validator.rs 55-95: the loop over declared_map in key order
RECURSIVE DeclaredLoop(_, _, _, _, _, _, _)
DeclaredLoop(addrs, i, declared_map, optimal_map, from, to, cb) ==
    IF i > Len(addrs) THEN <<>>
    ELSE ClassifyDeclared(addrs[i], declared_map[addrs[i]], optimal_map,
                          from, to, cb)
         \o DeclaredLoop(addrs, i + 1, declared_map, optimal_map, from, to, cb)

RECURSIVE OptimalLoop_slotless_is_missing(_, _, _, _)
OptimalLoop_slotless_is_missing(addrs, i, declared_map, optimal_map) ==
    IF i > Len(addrs) THEN <<>>
    ELSE (IF \/ addrs[i] \notin DOMAIN declared_map
             \/ declared_map[addrs[i]] = {}
          THEN <<Missing(addrs[i], SetToSeq(optimal_map[addrs[i]]),
                     Cardinality(optimal_map[addrs[i]])
                         * (COLD_SLOAD_COST - WARM_STORAGE_READ_COST))>>
          ELSE <<>>)
         \o OptimalLoop_slotless_is_missing(addrs, i + 1, declared_map, optimal_map)

\* validator.rs 97-106: the loop over optimal_map in key order
RECURSIVE OptimalLoop(_, _, _, _)
OptimalLoop(addrs, i, declared_map, optimal_map) ==
    IF i > Len(addrs) THEN <<>>
    ELSE (IF addrs[i] \notin DOMAIN declared_map
          THEN <<Missing(addrs[i], SetToSeq(optimal_map[addrs[i]]),
                     Cardinality(optimal_map[addrs[i]])
                         * (COLD_SLOAD_COST - WARM_STORAGE_READ_COST))>>
          ELSE <<>>)
         \o OptimalLoop(addrs, i + 1, declared_map, optimal_map)

\* validator.rs 132-139
RECURSIVE NoListLoop(_, _, _)
NoListLoop(addrs, i, optimal_map) ==
    IF i > Len(addrs) THEN 0
    ELSE COLD_ACCOUNT_ACCESS_COST
         + Cardinality(optimal_map[addrs[i]]) * COLD_SLOAD_COST
         + NoListLoop(addrs, i + 1, optimal_map)

compute_no_list_cost_warm_slots(optimal_map) ==
    NoListLoop(SetToSeq(DOMAIN optimal_map), 1, optimal_map)
        - Cardinality(UNION {{<<a, k>> : k \in optimal_map[a]} : a \in DOMAIN optimal_map})
          * WARM_STORAGE_READ_COST

compute_no_list_cost(optimal_map) ==
    NoListLoop(SetToSeq(DOMAIN optimal_map), 1, optimal_map)

IsValid_always(entries) == TRUE

\* validator.rs 122
IsValid(entries) == entries = <<>>

validate_missing_first(decl, opt, from, to, cb) ==
    LET scan == ScanItems(decl, 1, EmptyMap, <<>>)
        declared_map == scan.seen_slots
        optimal_map == OptimalMap(opt.list)
        entries == scan.duplicate_entries
                   \o OptimalLoop(SetToSeq(DOMAIN optimal_map), 1,
                                  declared_map, optimal_map)
                   \o DeclaredLoop(SetToSeq(DOMAIN declared_map), 1,
                                   declared_map, optimal_map, from, to, cb)
        declared_list_cost == access_list_gas_cost(decl)
        optimal_list_cost == access_list_gas_cost(opt.list)
        no_list_cost == compute_no_list_cost(optimal_map)
    IN [entries |-> entries,
        gas_summary |-> [declared_list_cost |-> declared_list_cost,
                         optimal_list_cost |-> optimal_list_cost,
                         no_list_cost |-> no_list_cost,
                         waste_per_tx |-> declared_list_cost - optimal_list_cost,
                         savings_vs_no_list |-> no_list_cost - optimal_list_cost],
        optimal_list |-> opt.list,
        is_valid |-> IsValid(entries)]

validate_saturating_waste(decl, opt, from, to, cb) ==
    LET scan == ScanItems(decl, 1, EmptyMap, <<>>)
        declared_map == scan.seen_slots
        optimal_map == OptimalMap(opt.list)
        entries == scan.duplicate_entries
                   \o DeclaredLoop(SetToSeq(DOMAIN declared_map), 1,
                                   declared_map, optimal_map, from, to, cb)
                   \o OptimalLoop(SetToSeq(DOMAIN optimal_map), 1,
                                  declared_map, optimal_map)
        declared_list_cost == access_list_gas_cost(decl)
        optimal_list_cost == access_list_gas_cost(opt.list)
        no_list_cost == compute_no_list_cost(optimal_map)
    IN [entries |-> entries,
        gas_summary |-> [declared_list_cost |-> declared_list_cost,
                         optimal_list_cost |-> optimal_list_cost,
                         no_list_cost |-> no_list_cost,
                         waste_per_tx |->
                             IF declared_list_cost >= optimal_list_cost
                             THEN declared_list_cost - optimal_list_cost ELSE 0,
                         savings_vs_no_list |-> no_list_cost - optimal_list_cost],
        optimal_list |-> opt.list,
        is_valid |-> IsValid(entries)]

\* validator.rs 15-130
validate(decl, opt, from, to, cb) ==
    LET scan == ScanItems(decl, 1, EmptyMap, <<>>)
        declared_map == scan.seen_slots
        optimal_map == OptimalMap(opt.list)
        entries == scan.duplicate_entries
                   \o DeclaredLoop(SetToSeq(DOMAIN declared_map), 1,
                                   declared_map, optimal_map, from, to, cb)
                   \o OptimalLoop(SetToSeq(DOMAIN optimal_map), 1,
                                  declared_map, optimal_map)
        declared_list_cost == access_list_gas_cost(decl)
        optimal_list_cost == access_list_gas_cost(opt.list)
        no_list_cost == compute_no_list_cost(optimal_map)
    IN [entries |-> entries,
        gas_summary |-> [declared_list_cost |-> declared_list_cost,
                         optimal_list_cost |-> optimal_list_cost,
                         no_list_cost |-> no_list_cost,
                         waste_per_tx |-> declared_list_cost - optimal_list_cost,
                         savings_vs_no_list |-> no_list_cost - optimal_list_cost],
        optimal_list |-> opt.list,
        is_valid |-> IsValid(entries)]

(* -------------------- tracer.rs and lib.rs entry points ---------------- *)

\* bound on the storage keys of one item recorded by the tracker
MaxTraceKeys == 1

\* accounts that are neither a precompile nor created by the transaction
\* under test: possible coinbases and call targets
PlainAddresses == Addresses \ precompile_addresses

\* TxKind::Call(addr) or TxKind::Create
TxKinds ==
    {[create |-> TRUE, to |-> ZERO]}
    \cup {[create |-> FALSE, to |-> a] : a \in PlainAddresses}

\* what executing the transaction does once it has passed validation:
\* a database read fails, the transaction is invalid for a reason other
\* than its nonce, or it runs to success, a revert or an exceptional halt
Executions == {"db_error", "invalid_tx", "success", "revert", "halt"}

\* items the inner access-list tracker can hand back
TraceItems ==
    [address : PlainAddresses,
     storage_keys : SeqsUpTo(1..MaxTraceKeys, MaxTraceKeys)]

TraceLists == SeqsUpTo(TraceItems, MaxItems)

\* declared lists handed to validate / validate_replay
DeclaredLists == SeqsUpTo(TraceItems, 1)

\* the database, transaction and block as far as the entry points see them
Envs ==
    [kind : TxKinds, nonce_ok : BOOLEAN, execution : Executions,
     trace : TraceLists, created : SUBSET Creatable]

NoEnv == [kind |-> [create |-> FALSE, to |-> ZERO], nonce_ok |-> TRUE,
          execution |-> "success", trace |-> <<>>, created |-> {}]

Ok(v) == [tag |-> "Ok", value |-> v]
Err(e) == [tag |-> "Err", error |-> e]

\* the transaction's call target, or the zero address for a creation
TxTo(kind) == IF kind.create THEN ZERO ELSE kind.to

\* evm.inspect_one_tx under the configured nonce check
inspect_one_tx(e, disable_nonce_check) ==
    IF ~e.nonce_ok /\ ~disable_nonce_check THEN "error"
    ELSE IF e.execution \in {"db_error", "invalid_tx"} THEN "error"
    ELSE e.execution

\* the orders in which the inspector's HashSet of created contracts can be
\* collected into a Vec
CreatedOrders(e) ==
    {v \in CreatedVecs : Range(v) = e.created /\ Len(v) = Cardinality(e.created)}

generate_access_list_fail_on_halt(e, created_vec, disable_nonce_check) ==
    LET result == inspect_one_tx(e, disable_nonce_check)
    IN IF result # "success" THEN Err("EvmExecution")
       ELSE Ok([access_list |-> e.trace,
                created_contracts |-> created_vec,
                success |-> TRUE])

\* tracer.rs generate_access_list; gas_used is carried through untouched and
\* left out
generate_access_list(e, created_vec, disable_nonce_check) ==
    LET result == inspect_one_tx(e, disable_nonce_check)
    IN IF result = "error" THEN Err("EvmExecution")
       ELSE Ok([access_list |-> e.trace,
                created_contracts |-> created_vec,
                success |-> result = "success"])

generate_coinbase_not_warm(e, from, cb, created_vec) ==
    LET traced == generate_access_list(e, created_vec, FALSE)
    IN IF traced.tag = "Err" THEN traced
       ELSE Ok(optimize(traced.value, from, TxTo(e.kind), ZERO))

\* lib.rs generate
generate(e, from, cb, created_vec) ==
    LET traced == generate_access_list(e, created_vec, FALSE)
    IN IF traced.tag = "Err" THEN traced
       ELSE Ok(optimize(traced.value, from, TxTo(e.kind), cb))

\* lib.rs validate and validate_replay share everything but the flag
ValidateWith(e, from, cb, decl, created_vec, disable_nonce_check) ==
    LET traced == generate_access_list(e, created_vec, disable_nonce_check)
    IN IF traced.tag = "Err" THEN traced
       ELSE Ok(validate(decl,
                        optimize(traced.value, from, TxTo(e.kind), cb),
                        from, TxTo(e.kind), cb))

\* lib.rs validate
lib_validate(e, from, cb, decl, created_vec) ==
    ValidateWith(e, from, cb, decl, created_vec, FALSE)

lib_validate_replay_nonce_checked(e, from, cb, decl, created_vec) ==
    ValidateWith(e, from, cb, decl, created_vec, FALSE)

\* lib.rs validate_replay
lib_validate_replay(e, from, cb, decl, created_vec) ==
    ValidateWith(e, from, cb, decl, created_vec, TRUE)

\* the nonce-check flag each entry point passes to the tracer
DisablesNonceCheck(entry) == entry = "validate_replay"

\* one invocation of an entry point: what the tracer returned inside it and
\* what the entry point returned
Invoke(entry, e, from, cb, decl, created_vec) ==
    [entry |-> entry,
     traced |-> generate_access_list(e, created_vec, DisablesNonceCheck(entry)),
     result |-> CASE entry = "generate" ->
                       generate(e, from, cb, created_vec)
                  [] entry = "validate" ->
                       lib_validate(e, from, cb, decl, created_vec)
                  [] entry = "validate_replay" ->
                       lib_validate_replay(e, from, cb, decl, created_vec)]

(* --------------------- types.rs: JSON serialization -------------------- *)
(* A JSON object is a record, an array a sequence, a number an integer, a   *)
(* string a string.  Addresses and 32-byte words are written as hex         *)
(* strings; only the last byte is kept here, as in addr(n) and slot(n) of   *)
(* the unit tests.                                                          *)

\* bound on the entries of a report that is serialized
MaxEntries == 2

HexDigits == <<"0", "1", "2", "3", "4", "5", "6", "7",
               "8", "9", "a", "b", "c", "d", "e", "f">>

Bytes == 0..255

\* Serialize for Address and B256
ToHex(n) == "0x" \o HexDigits[(n \div 16) + 1] \o HexDigits[(n % 16) + 1]

\* Deserialize for Address and B256
FromHex(str) ==
    IF \E n \in Bytes : ToHex(n) = str
    THEN Ok(CHOOSE n \in Bytes : ToHex(n) = str)
    ELSE Err("invalid hex")

HexSeq(ns) == [k \in DOMAIN ns |-> ToHex(ns[k])]

AllOk(rs) == \A k \in DOMAIN rs : rs[k].tag = "Ok"

Values(rs) == [k \in DOMAIN rs |-> rs[k].value]

UnHexSeq(strs) ==
    LET rs == [k \in DOMAIN strs |-> FromHex(strs[k])]
    IN IF AllOk(rs) THEN Ok(Values(rs)) ELSE Err("invalid hex")

\* the enum variant behind an entry of the model
VariantName(e) == CASE e.kind = "missing" -> "Missing"
                    [] e.kind = "stale" -> "Stale"
                    [] e.kind = "incomplete" -> "Incomplete"
                    [] e.kind = "redundant" -> "Redundant"
                    [] e.kind = "duplicate" -> "Duplicate"

VariantNames == {"Missing", "Stale", "Incomplete", "Redundant", "Duplicate"}

\* serde(rename_all = "lowercase")
Lowercase(name) == CASE name = "Missing" -> "missing"
                     [] name = "Stale" -> "stale"
                     [] name = "Incomplete" -> "incomplete"
                     [] name = "Redundant" -> "redundant"
                     [] name = "Duplicate" -> "duplicate"

\* derive(Serialize) for DiffEntry with serde(tag = "kind")
SerializeDiffEntry(e) ==
    LET tag == Lowercase(VariantName(e))
    IN CASE VariantName(e) \in {"Missing", "Stale"} ->
              [kind |-> tag, address |-> ToHex(e.address),
               storage_keys |-> HexSeq(e.storage_keys),
               gas_waste |-> e.gas_waste]
         [] VariantName(e) = "Incomplete" ->
              [kind |-> tag, address |-> ToHex(e.address),
               missing_slots |-> HexSeq(e.missing_slots),
               gas_waste |-> e.gas_waste]
         [] VariantName(e) = "Redundant" ->
              [kind |-> tag, address |-> ToHex(e.address),
               gas_waste |-> e.gas_waste]
         [] VariantName(e) = "Duplicate" ->
              [kind |-> tag, address |-> ToHex(e.address),
               storage_key |-> ToHex(e.storage_key),
               gas_waste |-> e.gas_waste]

\* the fields each variant needs when it is read back
VariantFields(name) ==
    CASE name \in {"Missing", "Stale"} -> {"address", "storage_keys", "gas_waste"}
      [] name = "Incomplete" -> {"address", "missing_slots", "gas_waste"}
      [] name = "Redundant" -> {"address", "gas_waste"}
      [] name = "Duplicate" -> {"address", "storage_key", "gas_waste"}

\* a u64 field read from a JSON number
DeserializeU64(n) == IF n >= 0 THEN Ok(n) ELSE Err("invalid value")

\* derive(Deserialize) for DiffEntry: the variant is picked by the kind tag
DeserializeDiffEntry(j) ==
    IF "kind" \notin DOMAIN j THEN Err("missing field kind")
    ELSE IF ~\E name \in VariantNames : Lowercase(name) = j.kind
    THEN Err("unknown variant")
    ELSE
      LET name == CHOOSE v \in VariantNames : Lowercase(v) = j.kind
      IN IF ~(VariantFields(name) \subseteq DOMAIN j) THEN Err("missing field")
         ELSE IF FromHex(j.address).tag = "Err"
                 \/ DeserializeU64(j.gas_waste).tag = "Err"
         THEN Err("invalid value")
         ELSE
           LET address == FromHex(j.address).value
           IN CASE name = "Missing" ->
                     IF UnHexSeq(j.storage_keys).tag = "Err" THEN Err("invalid hex")
                     ELSE Ok(Missing(address, UnHexSeq(j.storage_keys).value,
                                     j.gas_waste))
                [] name = "Stale" ->
                     IF UnHexSeq(j.storage_keys).tag = "Err" THEN Err("invalid hex")
                     ELSE Ok(Stale(address, UnHexSeq(j.storage_keys).value,
                                   j.gas_waste))
                [] name = "Incomplete" ->
                     IF UnHexSeq(j.missing_slots).tag = "Err" THEN Err("invalid hex")
                     ELSE Ok(Incomplete(address, UnHexSeq(j.missing_slots).value,
                                        j.gas_waste))
                [] name = "Redundant" -> Ok(Redundant(address, j.gas_waste))
                [] name = "Duplicate" ->
                     IF FromHex(j.storage_key).tag = "Err" THEN Err("invalid hex")
                     ELSE Ok(Duplicate(address, FromHex(j.storage_key).value,
                                       j.gas_waste))

\* Serialize for AccessListItem (camelCase field names)
SerializeAccessListItem(it) ==
    [address |-> ToHex(it.address), storageKeys |-> HexSeq(it.storage_keys)]

DeserializeAccessListItem(j) ==
    IF ~({"address", "storageKeys"} \subseteq DOMAIN j) THEN Err("missing field")
    ELSE IF FromHex(j.address).tag = "Err" \/ UnHexSeq(j.storageKeys).tag = "Err"
    THEN Err("invalid hex")
    ELSE Ok([address |-> FromHex(j.address).value,
             storage_keys |-> UnHexSeq(j.storageKeys).value])

\* derive(Serialize) for GasSummary
SerializeGasSummary(g) ==
    [declared_list_cost |-> g.declared_list_cost,
     optimal_list_cost |-> g.optimal_list_cost,
     no_list_cost |-> g.no_list_cost,
     waste_per_tx |-> g.waste_per_tx,
     savings_vs_no_list |-> g.savings_vs_no_list]

GasSummaryFields == {"declared_list_cost", "optimal_list_cost", "no_list_cost",
                     "waste_per_tx", "savings_vs_no_list"}

DeserializeGasSummary_unsigned(j) ==
    IF ~(GasSummaryFields \subseteq DOMAIN j) THEN Err("missing field")
    ELSE IF \E f \in GasSummaryFields : DeserializeU64(j[f]).tag = "Err"
    THEN Err("invalid value")
    ELSE Ok([declared_list_cost |-> j.declared_list_cost,
             optimal_list_cost |-> j.optimal_list_cost,
             no_list_cost |-> j.no_list_cost,
             waste_per_tx |-> j.waste_per_tx,
             savings_vs_no_list |-> j.savings_vs_no_list])

\* derive(Deserialize) for GasSummary: three u64 fields, two i64 fields
DeserializeGasSummary(j) ==
    IF ~(GasSummaryFields \subseteq DOMAIN j) THEN Err("missing field")
    ELSE IF \E f \in {"declared_list_cost", "optimal_list_cost", "no_list_cost"} :
               DeserializeU64(j[f]).tag = "Err"
    THEN Err("invalid value")
    ELSE Ok([declared_list_cost |-> j.declared_list_cost,
             optimal_list_cost |-> j.optimal_list_cost,
             no_list_cost |-> j.no_list_cost,
             waste_per_tx |-> j.waste_per_tx,
             savings_vs_no_list |-> j.savings_vs_no_list])

\* serde_json::to_string for a ValidationReport
to_string(r) ==
    [entries |-> [k \in DOMAIN r.entries |-> SerializeDiffEntry(r.entries[k])],
     gas_summary |-> SerializeGasSummary(r.gas_summary),
     optimal_list |-> [k \in DOMAIN r.optimal_list |->
                          SerializeAccessListItem(r.optimal_list[k])],
     is_valid |-> r.is_valid]

\* serde_json::from_str for a ValidationReport
from_str(j) ==
    IF ~({"entries", "gas_summary", "optimal_list", "is_valid"} \subseteq DOMAIN j)
    THEN Err("missing field")
    ELSE
      LET entries == [k \in DOMAIN j.entries |-> DeserializeDiffEntry(j.entries[k])]
          gas_summary == DeserializeGasSummary(j.gas_summary)
          optimal_list == [k \in DOMAIN j.optimal_list |->
                              DeserializeAccessListItem(j.optimal_list[k])]
      IN IF ~AllOk(entries) \/ gas_summary.tag = "Err" \/ ~AllOk(optimal_list)
         THEN Err("invalid report")
         ELSE Ok([entries |-> Values(entries),
                  gas_summary |-> gas_summary.value,
                  optimal_list |-> Values(optimal_list),
                  is_valid |-> j.is_valid])

\* the reports that are serialized: any entries, any summary
EntryAddresses == {ZERO, PRECOMPILE_LAST + 1}

EntrySlotVecs == {<<>>, <<1>>, <<1, 2>>}

EntryWastes == {0, ACCESS_LIST_STORAGE_KEY_COST}

DiffEntries ==
    {Missing(a, ks, w) : a \in EntryAddresses, ks \in EntrySlotVecs, w \in EntryWastes}
    \cup {Stale(a, ks, w) : a \in EntryAddresses, ks \in EntrySlotVecs, w \in EntryWastes}
    \cup {Incomplete(a, ks, w) : a \in EntryAddresses, ks \in EntrySlotVecs,
                                 w \in EntryWastes}
    \cup {Redundant(a, w) : a \in EntryAddresses, w \in EntryWastes}
    \cup {Duplicate(a, k, w) : a \in EntryAddresses, k \in Slots, w \in EntryWastes}

GasSummaries ==
    [declared_list_cost : {0, ACCESS_LIST_ADDRESS_COST + ACCESS_LIST_STORAGE_KEY_COST},
     optimal_list_cost : {ACCESS_LIST_ADDRESS_COST},
     no_list_cost : {COLD_ACCOUNT_ACCESS_COST},
     waste_per_tx : {0 - ACCESS_LIST_ADDRESS_COST, ACCESS_LIST_STORAGE_KEY_COST},
     savings_vs_no_list : {0 - WARM_STORAGE_READ_COST,
                           NET_SAVINGS_PER_ACCESSED_ADDRESS}]

ValidationReports ==
    [entries : SeqsUpTo(DiffEntries, MaxEntries),
     gas_summary : GasSummaries,
     optimal_list : {<<>>, <<[address |-> MaxAddr, storage_keys |-> <<2, 1>>]>>},
     is_valid : BOOLEAN]

NoWire == [json |-> <<>>, decoded |-> <<>>, json2 |-> <<>>]

(* ------------------------ tracer.rs: HammerInspector ------------------- *)

\* bound on the hooks the EVM calls during one execution
MaxHooks == 3

None == [some |-> FALSE, addr |-> ZERO]
Some(a) == [some |-> TRUE, addr |-> a]

\* CreateOutcome as the hook receives it: how the creation ended and the
\* optional address; the interface ties neither to the other
CreateResults == {"success", "revert", "failure"}

CreateOutcomes ==
    [result : CreateResults, address : {None} \cup {Some(a) : a \in Creatable}]

\* HammerInspector::default; the inner tracker is kept as the hooks it got
NewInspector == [inner |-> <<>>, created_contracts |-> {}]

\* step, call and create only forward to the inner tracker
forward(insp, hook) == [insp EXCEPT !.inner = Append(@, hook)]

\* create_end forwards, then inserts the outcome's address when there is one
create_end(insp, outcome) ==
    LET forwarded == forward(insp, [hook |-> "create_end", outcome |-> outcome])
    IN IF outcome.address.some
       THEN [forwarded EXCEPT !.created_contracts = @ \cup {outcome.address.addr}]
       ELSE forwarded

(* ----------------------- cli: validate and compare --------------------- *)

\* util.rs assert_post_berlin
BERLIN_BLOCK == 12244000

\* bound on the blocks after the Berlin block
MaxHeight == 1

\* block numbers around the fork; a block's hash stands for its number
BlockNumbers == (BERLIN_BLOCK - 1)..(BERLIN_BLOCK + MaxHeight)

\* the reports the core can hand to a command
CoreReports ==
    {validate(d, optimize([access_list |-> t, created_contracts |-> <<>>],
                          PRECOMPILE_LAST + 1, MaxAddr, ZERO),
              PRECOMPILE_LAST + 1, MaxAddr, ZERO) :
        d \in DeclaredLists, t \in DeclaredLists}

\* what the command line, the node and the core give one run of a command
CliInputs ==
    [args_ok : BOOLEAN,
     output : {"json", "human"},
     node_ok : BOOLEAN,
     is_create : BOOLEAN,
     is_blob : BOOLEAN,
     receipt_status : BOOLEAN,
     tx_block : BlockNumbers,
     prefetch_ok : BOOLEAN,
     core : {Err("EvmExecution")} \cup {Ok(r) : r \in CoreReports}]

\* the state a BlockId::hash(h) read sees: the chain after block h
StateAfter(block_id) == block_id

\* compare.rs 133: the block whose state the replay reads
state_block_id(block_hash) == block_hash

\* a run that has not ended yet
Running(in) == [in |-> in, command |-> "none", obtained |-> FALSE,
                state_block |-> 0, exit_code |-> 0]

\* main returns Err: the process ends with code 1
Failed(in, command) ==
    [in |-> in, command |-> command, obtained |-> FALSE,
     state_block |-> 0, exit_code |-> 1]

ValidateExit_always_zero(r) == 0

\* validate.rs 114
ValidateExit(r) == IF r.is_valid THEN 0 ELSE 1

\* commands/validate.rs run
run_validate(in) ==
    IF ~in.args_ok THEN Failed(in, "validate")
    ELSE IF ~in.node_ok THEN Failed(in, "validate")
    ELSE IF in.core.tag = "Err" THEN Failed(in, "validate")
    ELSE [in |-> in, command |-> "validate", obtained |-> TRUE,
          state_block |-> 0, exit_code |-> ValidateExit(in.core.value)]

\* commands/compare.rs run
run_compare(in) ==
    IF ~in.args_ok THEN Failed(in, "compare")
    ELSE IF ~in.node_ok THEN Failed(in, "compare")
    ELSE IF in.is_create THEN Failed(in, "compare")
    ELSE IF in.is_blob THEN Failed(in, "compare")
    ELSE IF ~in.receipt_status THEN Failed(in, "compare")
    ELSE IF in.tx_block < BERLIN_BLOCK THEN Failed(in, "compare")
    ELSE IF ~in.prefetch_ok THEN Failed(in, "compare")
    ELSE IF in.core.tag = "Err"
    THEN [Failed(in, "compare") EXCEPT !.state_block = state_block_id(in.tx_block)]
    ELSE [in |-> in, command |-> "compare", obtained |-> TRUE,
          state_block |-> state_block_id(in.tx_block), exit_code |-> 0]

(* --------------------------- cli: prefetch ----------------------------- *)

\* an account as the node holds it: untouched, or funded and with code
EmptyAccount == [balance |-> 0, nonce |-> 0, code |-> 0]
LiveAccount == [balance |-> 1, nonce |-> 1, code |-> 1]

\* the chain state at state_block: an account and the value of slot 1 for
\* every address
NodeStates ==
    [PlainAddresses -> [info : {EmptyAccount, LiveAccount}, storage : {0, 1}]]

\* the RPC calls of the fallback path that can fail
FetchKinds == {"balance", "nonce", "code", "storage"}

\* what the node answers to eth_createAccessList: nothing, or a list
NodeHints ==
    {None, [some |-> TRUE, list |-> <<>>],
     [some |-> TRUE, list |-> <<[address |-> MaxAddr, storage_keys |-> <<1>>]>>]}

PrefetchInputs ==
    [node : NodeStates,
     prestate_ok : BOOLEAN,
     node_hint : NodeHints,
     failing : SUBSET FetchKinds]

EmptyCache == [accounts |-> EmptyMap, storage |-> EmptyMap]

\* CacheDB::insert_account_info
insert_account_info(cache, addr, info) ==
    [cache EXCEPT !.accounts =
        [a \in DOMAIN @ \cup {addr} |-> IF a = addr THEN info ELSE @[a]]]

\* CacheDB::insert_account_storage
insert_account_storage(cache, addr, slot, value) ==
    [cache EXCEPT !.storage =
        [k \in DOMAIN @ \cup {<<addr, slot>>} |->
            IF k = <<addr, slot>> THEN value ELSE @[k]]]

\* prefetch.rs merge_access_lists, as the map it builds
merge_access_lists(a, b) ==
    LET items == (IF a.some THEN Range(a.list) ELSE {}) \cup Range(b)
    IN [addr \in {it.address : it \in items} |->
           UNION {Range(it.storage_keys) : it \in {x \in items : x.address = addr}}]

\* the keys the transaction touches, as the prestate tracer sees them
Touched(decl, hint) == merge_access_lists(hint, decl)

\* a field of the prestate frame: left out by the node when it is zero
Omitted(v) == IF v = 0 THEN None ELSE Some(v)

unwrap_or(opt, default) == IF opt.some THEN opt.addr ELSE default

RECURSIVE FillStorage(_, _, _, _)
FillStorage(cache, addr, slots, value_of) ==
    IF slots = {} THEN cache
    ELSE LET slot == Min(slots)
         IN FillStorage(insert_account_storage(cache, addr, slot,
                                               value_of[addr, slot]),
                        addr, slots \ {slot}, value_of)

\* prefetch.rs 77-105: the cache is filled from the prestate frame
RECURSIVE FillFromPrestate(_, _, _, _)
FillFromPrestate(cache, addrs, touched, node) ==
    IF addrs = {} THEN cache
    ELSE LET addr == Min(addrs)
             account == node[addr].info
             info == [balance |-> unwrap_or(Omitted(account.balance), 0),
                      nonce |-> unwrap_or(Omitted(account.nonce), 0),
                      code |-> unwrap_or(Omitted(account.code), 0)]
             with_info == insert_account_info(cache, addr, info)
             with_storage ==
                 FillStorage(with_info, addr, touched[addr],
                             [a \in {addr}, sl \in touched[addr] |->
                                 node[a].storage])
         IN FillFromPrestate(with_storage, addrs \ {addr}, touched, node)

\* a fetch of the fallback path: the value, or the default when it failed
Fetched(kind, value, failing) == IF kind \in failing THEN 0 ELSE value

\* prefetch.rs 106-191: hinted accounts and slots are fetched and inserted
RECURSIVE FillFromFetches(_, _, _, _, _)
FillFromFetches(cache, addrs, addr_slots, node, failing) ==
    IF addrs = {} THEN cache
    ELSE LET addr == Min(addrs)
             account == node[addr].info
             info == [balance |-> Fetched("balance", account.balance, failing),
                      nonce |-> Fetched("nonce", account.nonce, failing),
                      code |-> Fetched("code", account.code, failing)]
             with_info == insert_account_info(cache, addr, info)
             with_storage ==
                 FillStorage(with_info, addr, addr_slots[addr],
                             [a \in {addr}, sl \in addr_slots[addr] |->
                                 Fetched("storage", node[a].storage, failing)])
         IN FillFromFetches(with_storage, addrs \ {addr}, addr_slots, node, failing)

\* prefetch.rs build
build(in, decl) ==
    IF in.prestate_ok
    THEN LET touched == Touched(decl, in.node_hint)
         IN FillFromPrestate(EmptyCache, DOMAIN touched, touched, in.node)
    ELSE LET addr_slots == merge_access_lists(in.node_hint, decl)
         IN FillFromFetches(EmptyCache, DOMAIN addr_slots, addr_slots,
                            in.node, in.failing)

\* CacheDB::basic: a hit answers from the cache, a miss goes to the node
basic(cache, node, addr) ==
    IF addr \in DOMAIN cache.accounts THEN cache.accounts[addr]
    ELSE node[addr].info

\* CacheDB::storage: a hit answers from the cache, a miss goes to the node
storage(cache, node, addr, slot) ==
    IF <<addr, slot>> \in DOMAIN cache.storage THEN cache.storage[<<addr, slot>>]
    ELSE node[addr].storage

(* ------------------------------- state --------------------------------- *)

EmptyRaw == [access_list |-> <<>>, created_contracts |-> <<>>]
EmptyOptimal == [list |-> <<>>, removed_addresses |-> <<>>]
EmptySummary == [declared_list_cost |-> 0, optimal_list_cost |-> 0,
                 no_list_cost |-> 0, waste_per_tx |-> 0,
                 savings_vs_no_list |-> 0]
EmptyReport == [entries |-> <<>>, gas_summary |-> EmptySummary,
                optimal_list |-> <<>>, is_valid |-> FALSE]

\* a raw trace and a transaction context, before optimize is called
Init ==
    /\ pc = "traced"
    /\ tx_from \in Addresses
    /\ tx_to \in Addresses
    /\ coinbase \in Addresses
    /\ raw \in [access_list : AccessLists, created_contracts : CreatedVecs]
    /\ optimal = EmptyOptimal
    /\ reoptimized = EmptyOptimal
    /\ declared = <<>>
    /\ report = EmptyReport
    /\ cost = 0
    /\ env = NoEnv
    /\ calls = <<>>
    /\ wire = <<>>
    /\ inspector = <<>>
    /\ cli = <<>>
    /\ db = <<>>

\* optimize(raw.clone(), tx_from, tx_to, coinbase): the caller keeps the trace
Optimize ==
    /\ pc = "traced"
    /\ optimal' = optimize(raw, tx_from, tx_to, coinbase)
    /\ pc' = "optimized"
    /\ UNCHANGED <<tx_from, tx_to, coinbase, raw, reoptimized, declared, report, cost, env, calls, wire, inspector, cli, db>>

\* optimize fed with its own output, same context and created_contracts
Reoptimize ==
    /\ pc = "optimized"
    /\ reoptimized' = optimize([access_list |-> optimal.list,
                                created_contracts |-> raw.created_contracts],
                               tx_from, tx_to, coinbase)
    /\ pc' = "reoptimized"
    /\ UNCHANGED <<tx_from, tx_to, coinbase, raw, optimal, declared, report, cost, env, calls, wire, inspector, cli, db>>

NextOpt == Optimize \/ Reoptimize

SpecOpt == Init /\ [][NextOpt]_vars

\* an access list handed to access_list_gas_cost
InitGas ==
    /\ pc = "list"
    /\ declared \in AccessLists
    /\ tx_from = ZERO /\ tx_to = ZERO /\ coinbase = ZERO
    /\ raw = EmptyRaw
    /\ optimal = EmptyOptimal
    /\ reoptimized = EmptyOptimal
    /\ report = EmptyReport
    /\ cost = 0
    /\ env = NoEnv
    /\ calls = <<>>
    /\ wire = <<>>
    /\ inspector = <<>>
    /\ cli = <<>>
    /\ db = <<>>

GasCost ==
    /\ pc = "list"
    /\ cost' = access_list_gas_cost(declared)
    /\ pc' = "costed"
    /\ UNCHANGED <<tx_from, tx_to, coinbase, raw, optimal, reoptimized, declared, report, env, calls, wire, inspector, cli, db>>

NextGas == GasCost

SpecGas == InitGas /\ [][NextGas]_vars

\* lib.rs 57-58 / 82-83: the trace is moved into optimize and is gone after
TraceAndOptimize ==
    /\ pc = "traced"
    /\ optimal' = optimize(raw, tx_from, tx_to, coinbase)
    /\ raw' = EmptyRaw
    /\ pc' = "optimal"
    /\ UNCHANGED <<tx_from, tx_to, coinbase, reoptimized, declared, report, cost, env, calls, wire, inspector, cli, db>>

\* lib.rs 60-62 / 85-87: validator::validate on a declared list
Validate ==
    /\ pc = "optimal"
    /\ \E d \in AccessLists :
          /\ declared' = d
          /\ report' = validate(d, optimal, tx_from, tx_to, coinbase)
    /\ pc' = "validated"
    /\ UNCHANGED <<tx_from, tx_to, coinbase, raw, optimal, reoptimized, cost, env, calls, wire, inspector, cli, db>>

NextVal == TraceAndOptimize \/ Validate

SpecVal == Init /\ [][NextVal]_vars

\* a database, transaction, block and declared list, before any entry point
\* is called
InitLib ==
    /\ pc = "ready"
    /\ env \in Envs
    /\ tx_from \in Creatable
    /\ tx_to = ZERO
    /\ coinbase \in PlainAddresses
    /\ declared \in DeclaredLists
    /\ raw = EmptyRaw
    /\ optimal = EmptyOptimal
    /\ reoptimized = EmptyOptimal
    /\ report = EmptyReport
    /\ cost = 0
    /\ calls = <<>>
    /\ wire = <<>>
    /\ inspector = <<>>
    /\ cli = <<>>
    /\ db = <<>>

\* the first call of an entry point; tx_to is what the entry point derives
Call(entry) ==
    /\ pc = "ready"
    /\ \E v \in CreatedOrders(env) :
          calls' = <<Invoke(entry, env, tx_from, coinbase, declared, v)>>
    /\ tx_to' = TxTo(env.kind)
    /\ pc' = "called"
    /\ UNCHANGED <<tx_from, coinbase, raw, optimal, reoptimized, declared,
                   report, cost, env, wire, inspector, cli, db>>

Generate == Call("generate")

LibValidate == Call("validate")

ValidateReplay == Call("validate_replay")

\* the same entry point called again on the same inputs; the inspector's
\* HashSet may be iterated in another order this time
Repeat ==
    /\ pc = "called"
    /\ \E v \in CreatedOrders(env) :
          calls' = Append(calls, Invoke(calls[1].entry, env, tx_from,
                                        coinbase, declared, v))
    /\ pc' = "repeated"
    /\ UNCHANGED <<tx_from, tx_to, coinbase, raw, optimal, reoptimized,
                   declared, report, cost, env, wire, inspector, cli, db>>

NextLib == Generate \/ LibValidate \/ ValidateReplay \/ Repeat

SpecLib == InitLib /\ [][NextLib]_vars

\* a report about to be written out
InitSerde ==
    /\ pc = "report"
    /\ report \in ValidationReports
    /\ wire = NoWire
    /\ tx_from = ZERO /\ tx_to = ZERO /\ coinbase = ZERO
    /\ raw = EmptyRaw
    /\ optimal = EmptyOptimal
    /\ reoptimized = EmptyOptimal
    /\ declared = <<>>
    /\ cost = 0
    /\ env = NoEnv
    /\ calls = <<>>
    /\ inspector = <<>>
    /\ cli = <<>>
    /\ db = <<>>

Serialize ==
    /\ pc = "report"
    /\ wire' = [wire EXCEPT !.json = to_string(report)]
    /\ pc' = "serialized"
    /\ UNCHANGED <<tx_from, tx_to, coinbase, raw, optimal, reoptimized, declared,
                   report, cost, env, calls, inspector, cli, db>>

Deserialize ==
    /\ pc = "serialized"
    /\ wire' = [wire EXCEPT !.decoded = from_str(wire.json)]
    /\ pc' = "deserialized"
    /\ UNCHANGED <<tx_from, tx_to, coinbase, raw, optimal, reoptimized, declared,
                   report, cost, env, calls, inspector, cli, db>>

\* the decoded report written out again
Reserialize ==
    /\ pc = "deserialized"
    /\ wire.decoded.tag = "Ok"
    /\ wire' = [wire EXCEPT !.json2 = to_string(wire.decoded.value)]
    /\ pc' = "reserialized"
    /\ UNCHANGED <<tx_from, tx_to, coinbase, raw, optimal, reoptimized, declared,
                   report, cost, env, calls, inspector, cli, db>>

NextSerde == Serialize \/ Deserialize \/ Reserialize

SpecSerde == InitSerde /\ [][NextSerde]_vars

\* a fresh inspector handed to the EVM
InitInspector ==
    /\ pc = "inspecting"
    /\ inspector = NewInspector
    /\ tx_from = ZERO /\ tx_to = ZERO /\ coinbase = ZERO
    /\ raw = EmptyRaw
    /\ optimal = EmptyOptimal
    /\ reoptimized = EmptyOptimal
    /\ declared = <<>>
    /\ report = EmptyReport
    /\ cost = 0
    /\ env = NoEnv
    /\ calls = <<>>
    /\ wire = <<>>
    /\ cli = <<>>
    /\ db = <<>>

Hook(next) ==
    /\ pc = "inspecting"
    /\ Len(inspector.inner) < MaxHooks
    /\ inspector' = next
    /\ UNCHANGED <<pc, tx_from, tx_to, coinbase, raw, optimal, reoptimized,
                   declared, report, cost, env, calls, wire, cli, db>>

StepHook == Hook(forward(inspector, [hook |-> "step"]))

CallHook == Hook(forward(inspector, [hook |-> "call"]))

CreateHook == Hook(forward(inspector, [hook |-> "create"]))

CreateEndHook == \E outcome \in CreateOutcomes : Hook(create_end(inspector, outcome))

NextInspector == StepHook \/ CallHook \/ CreateHook \/ CreateEndHook

SpecInspector == InitInspector /\ [][NextInspector]_vars

\* a command about to run
InitCli ==
    /\ pc = "cli"
    /\ \E in \in CliInputs : cli = Running(in)
    /\ tx_from = ZERO /\ tx_to = ZERO /\ coinbase = ZERO
    /\ raw = EmptyRaw
    /\ optimal = EmptyOptimal
    /\ reoptimized = EmptyOptimal
    /\ declared = <<>>
    /\ report = EmptyReport
    /\ cost = 0
    /\ env = NoEnv
    /\ calls = <<>>
    /\ wire = <<>>
    /\ inspector = <<>>
    /\ db = <<>>

Run(result) ==
    /\ pc = "cli"
    /\ cli' = result
    /\ report' = IF result.obtained THEN cli.in.core.value ELSE report
    /\ pc' = "exited"
    /\ UNCHANGED <<tx_from, tx_to, coinbase, raw, optimal, reoptimized,
                   declared, cost, env, calls, wire, inspector, db>>

RunValidate == Run(run_validate(cli.in))

RunCompare == Run(run_compare(cli.in))

NextCli == RunValidate \/ RunCompare

SpecCli == InitCli /\ [][NextCli]_vars

NoRead == [kind |-> "none", addr |-> ZERO, got |-> 0, node_value |-> 0]

\* a node, a declared list and a transaction about to be prefetched
InitPrefetch ==
    /\ pc = "prefetch"
    /\ \E in \in PrefetchInputs : db = [in |-> in, cache |-> EmptyCache, read |-> NoRead]
    /\ declared \in DeclaredLists
    /\ tx_from = ZERO /\ tx_to = ZERO /\ coinbase = ZERO
    /\ raw = EmptyRaw
    /\ optimal = EmptyOptimal
    /\ reoptimized = EmptyOptimal
    /\ report = EmptyReport
    /\ cost = 0
    /\ env = NoEnv
    /\ calls = <<>>
    /\ wire = <<>>
    /\ inspector = <<>>
    /\ cli = <<>>

\* prefetch::build returns the pre-warmed database
Build ==
    /\ pc = "prefetch"
    /\ db' = [db EXCEPT !.cache = build(db.in, declared)]
    /\ pc' = "built"
    /\ UNCHANGED <<tx_from, tx_to, coinbase, raw, optimal, reoptimized, declared,
                   report, cost, env, calls, wire, inspector, cli>>

\* the EVM reads an account from the pre-warmed database
ReadBasic ==
    /\ pc = "built"
    /\ \E addr \in PlainAddresses :
          db' = [db EXCEPT !.read =
                    [kind |-> "basic", addr |-> addr,
                     got |-> basic(db.cache, db.in.node, addr),
                     node_value |-> db.in.node[addr].info]]
    /\ pc' = "read"
    /\ UNCHANGED <<tx_from, tx_to, coinbase, raw, optimal, reoptimized, declared,
                   report, cost, env, calls, wire, inspector, cli>>

\* the EVM reads a storage slot from the pre-warmed database
ReadStorage ==
    /\ pc = "built"
    /\ \E addr \in PlainAddresses :
          db' = [db EXCEPT !.read =
                    [kind |-> "storage", addr |-> addr,
                     got |-> storage(db.cache, db.in.node, addr, 1),
                     node_value |-> db.in.node[addr].storage]]
    /\ pc' = "read"
    /\ UNCHANGED <<tx_from, tx_to, coinbase, raw, optimal, reoptimized, declared,
                   report, cost, env, calls, wire, inspector, cli>>

NextPrefetch == Build \/ ReadBasic \/ ReadStorage

SpecPrefetch == InitPrefetch /\ [][NextPrefetch]_vars

(* ======================= properties: optimizer ========================= *)

RawAddrs == {raw.access_list[i].address : i \in DOMAIN raw.access_list}
ListAddrs == {optimal.list[i].address : i \in DOMAIN optimal.list}
RemovedAddrs == Range(optimal.removed_addresses)
CreatedSet == Range(raw.created_contracts)
\* union of the slots of all raw items carrying address a
RawSlotsOf(a) == UNION {Range(raw.access_list[i].storage_keys) :
                           i \in {j \in DOMAIN raw.access_list :
                                      raw.access_list[j].address = a}}
Optimized == pc \in {"optimized", "reoptimized"}

\* C1 (as claimed): no address of the list returned by optimize equals
\* tx_from, tx_to or coinbase (the zero address included), is a precompile
\* 0x01..0x0a, or is an element of created_contracts.
C1_WarmStripComplete ==
    Optimized =>
        \A a \in ListAddrs :
            /\ a \notin {tx_from, tx_to, coinbase}
            /\ a \notin PRECOMPILE_FIRST..PRECOMPILE_LAST
            /\ a \notin CreatedSet

\* C2: in the list returned by optimize the item addresses are strictly
\* ascending (so pairwise distinct) and under each item the storage keys are
\* strictly ascending (so pairwise distinct).
C2_CanonicalForm ==
    Optimized =>
        /\ \A i, j \in DOMAIN optimal.list :
              i < j => optimal.list[i].address < optimal.list[j].address
        /\ \A k \in DOMAIN optimal.list :
              \A i, j \in DOMAIN optimal.list[k].storage_keys :
                i < j => optimal.list[k].storage_keys[i]
                           < optimal.list[k].storage_keys[j]

\* C2 witness: two kept items arrive in descending address order, one of
\* them carrying a repeated key and one carrying keys in descending order.
C2_Witness ==
    /\ pc = "optimized"
    /\ Len(raw.access_list) = 2
    /\ raw.access_list[1].address > raw.access_list[2].address
    /\ raw.access_list[1].storage_keys = <<2, 1>>
    /\ raw.access_list[2].storage_keys = <<1, 1>>
    /\ Len(optimal.list) = 2

\* C3: read as a map from address to slot set, the returned list equals the
\* raw list restricted to the addresses that were not stripped, each kept
\* address carrying the union of the slots of all raw items with that
\* address (an empty union included).
C3_Coverage ==
    Optimized =>
        /\ ListAddrs = RawAddrs \ RemovedAddrs
        /\ \A k \in DOMAIN optimal.list :
              Range(optimal.list[k].storage_keys)
                  = RawSlotsOf(optimal.list[k].address)

\* C3 witness: a kept address comes first with slots and then again without
\* any, and its slots survive.
C3_Witness ==
    /\ pc = "optimized"
    /\ Len(raw.access_list) = 2
    /\ raw.access_list[1].address = raw.access_list[2].address
    /\ raw.access_list[1].storage_keys # <<>>
    /\ raw.access_list[2].storage_keys = <<>>
    /\ Len(optimal.list) = 1
    /\ optimal.list[1].storage_keys # <<>>

\* C3 witness of the other case: a kept address whose raw items carry no slot.
C3_WitnessSlotless ==
    /\ pc = "optimized"
    /\ Len(optimal.list) = 1
    /\ optimal.list[1].storage_keys = <<>>

\* C4: optimize applied to its own output, with the same context and
\* created_contracts, returns the same list.
C4_Idempotent ==
    pc = "reoptimized" => reoptimized.list = optimal.list

\* C4 witness: the second run has happened on a list of two items, after a
\* first run that did strip and merge something.
C4_Witness ==
    /\ pc = "reoptimized"
    /\ Len(optimal.list) = 2
    /\ optimal.list[1].storage_keys # <<>>
    /\ reoptimized.list = optimal.list

\* C5: when the zero address is none of tx_from, tx_to, coinbase and occurs
\* in the raw trace it is in the returned list with all its slots; and the
\* zero address is removed only when it equals one of the three.
C5_ZeroAddressKept ==
    Optimized =>
        /\ (ZERO \notin {tx_from, tx_to, coinbase} /\ ZERO \in RawAddrs) =>
              \E k \in DOMAIN optimal.list :
                /\ optimal.list[k].address = ZERO
                /\ Range(optimal.list[k].storage_keys) = RawSlotsOf(ZERO)
        /\ ZERO \in RemovedAddrs => ZERO \in {tx_from, tx_to, coinbase}

\* C5 witness: zero is not in the context, is traced with a slot, is kept.
C5_Witness ==
    /\ pc = "optimized"
    /\ ZERO \notin {tx_from, tx_to, coinbase}
    /\ \E i \in DOMAIN raw.access_list :
          /\ raw.access_list[i].address = ZERO
          /\ raw.access_list[i].storage_keys # <<>>
    /\ ZERO \in ListAddrs

\* the addresses of the raw items, in raw order
RawAddrSeq == [i \in DOMAIN raw.access_list |-> raw.access_list[i].address]
\* step 2 of the optimizer: warm set (zero excluded), precompiles, created
DroppedByRule(a) ==
    \/ a \in {tx_from, tx_to, coinbase} \ {ZERO}
    \/ a \in PRECOMPILE_FIRST..PRECOMPILE_LAST
    \/ a \in CreatedSet

\* C6: removed_addresses is the sequence of the addresses of the dropped raw
\* items (warm set, precompile or created), one entry per dropped item in raw
\* order; every raw address is in the list or in removed_addresses, never in
\* both; an empty raw list gives an empty removed_addresses.
C6_RemovedAddresses ==
    Optimized =>
        /\ optimal.removed_addresses = SelectSeq(RawAddrSeq, DroppedByRule)
        /\ RawAddrs = ListAddrs \cup RemovedAddrs
        /\ ListAddrs \cap RemovedAddrs = {}
        /\ raw.access_list = <<>> => optimal.removed_addresses = <<>>

\* C6 witness: the same created address is dropped twice, giving two entries.
C6_Witness ==
    /\ pc = "optimized"
    /\ Len(optimal.removed_addresses) = 2
    /\ optimal.removed_addresses[1] = optimal.removed_addresses[2]
    /\ optimal.removed_addresses[1] \in CreatedSet

\* C6 witness: one item dropped and one kept.
C6_WitnessMixed ==
    /\ pc = "optimized"
    /\ Len(optimal.removed_addresses) = 1
    /\ Len(optimal.list) = 1

(* ======================== properties: gas model ======================== *)

RECURSIVE SumKeys(_, _)
SumKeys(list, n) == IF n = 0 THEN 0
                    ELSE Len(list[n].storage_keys) + SumKeys(list, n - 1)

\* C7: access_list_gas_cost = 2400 * (number of distinct addresses)
\*     + 1900 * (number of storage-key entries, duplicates counted).
C7_GasCostFormula ==
    pc = "costed" =>
        cost = 2400 * Cardinality({declared[i].address : i \in DOMAIN declared})
             + 1900 * SumKeys(declared, Len(declared))

\* C7 witness: an address repeated in two items, and a slot repeated under it.
C7_Witness ==
    /\ pc = "costed"
    /\ Len(declared) = 2
    /\ declared[1].address = declared[2].address
    /\ declared[1].storage_keys = <<1, 1>>
    /\ cost = 2400 + 1900 * (2 + Len(declared[2].storage_keys))

(* ======================== properties: validator ======================== *)

Validated == pc = "validated"
Kinds(ks) == SelectSeq(report.entries, LAMBDA e : e.kind \in ks)
HasKind(ks) == \E i \in DOMAIN report.entries : report.entries[i].kind \in ks

\* C8: the report has is_valid = true exactly when it has no entries.
C8_ValidIffEmpty ==
    Validated => (report.is_valid <=> Len(report.entries) = 0)

\* C8 witness: a non-empty declared list that is accepted.
C8_Witness ==
    /\ Validated
    /\ Len(declared) = 2
    /\ report.is_valid
    /\ report.entries = <<>>

\* C8 witness of the other side: a report with entries, not valid.
C8_WitnessInvalid ==
    /\ Validated
    /\ Len(report.entries) >= 2
    /\ ~report.is_valid

RECURSIVE SumWaste(_, _)
SumWaste(entries, n) == IF n = 0 THEN 0
                        ELSE entries[n].gas_waste + SumWaste(entries, n - 1)
UpfrontWaste ==
    LET up == Kinds({"stale", "redundant", "duplicate"}) IN SumWaste(up, Len(up))

\* C9 (as claimed): in a report without Missing and without Incomplete
\* entries, the gas_waste of the Stale, Redundant and Duplicate entries adds
\* up to gas_summary.waste_per_tx.
C9_TwoCostSpaces ==
    (Validated /\ ~HasKind({"missing", "incomplete"}))
        => UpfrontWaste = report.gas_summary.waste_per_tx

\* C9 restricted to reports whose optimum lists no address that the
\* validator treats as warm-by-default.
C9_TwoCostSpacesNoWarmOptimum ==
    (/\ Validated
     /\ ~HasKind({"missing", "incomplete"})
     /\ \A a \in ListAddrs : ~IsWarmDeclared(a, tx_from, tx_to, coinbase))
        => UpfrontWaste = report.gas_summary.waste_per_tx

\* the (address, slot) pairs of the first n declared items, in declared order
RECURSIVE DeclaredPairs(_, _)
DeclaredPairs(list, n) ==
    IF n = 0 THEN <<>>
    ELSE DeclaredPairs(list, n - 1)
         \o [k \in DOMAIN list[n].storage_keys |->
                <<list[n].address, list[n].storage_keys[k]>>]
\* the pairs that repeat an earlier pair, in declared order
RepeatedPairs(pairs) ==
    LET idx == SetToSeq({p \in DOMAIN pairs :
                            \E q \in 1..(p - 1) : pairs[q] = pairs[p]})
    IN [k \in DOMAIN idx |-> pairs[idx[k]]]

\* C10: the Duplicate entries of the report are, in order, one entry with
\* gas_waste 1900 for each occurrence of an (address, slot) pair after its
\* first one, inside one item or across items, warm addresses included; so
\* their number is the declared slot entries minus the distinct pairs.
C10_DuplicateDetection ==
    Validated =>
        LET pairs == DeclaredPairs(declared, Len(declared))
            rep == RepeatedPairs(pairs)
            dups == Kinds({"duplicate"})
        IN /\ dups = [k \in DOMAIN rep |->
                         [kind |-> "duplicate", address |-> rep[k][1],
                          storage_key |-> rep[k][2], gas_waste |-> 1900]]
           /\ Len(dups) = Len(pairs) - Cardinality(Range(pairs))

\* C10 witness: a slot is repeated in a later item of the same address, that
\* address is warm-by-default, and the repeat is reported once.
C10_Witness ==
    /\ Validated
    /\ Len(declared) = 2
    /\ declared[1].address = declared[2].address
    /\ declared[1].address = tx_from
    /\ declared[1].storage_keys = <<1, 2>>
    /\ declared[2].storage_keys = <<2>>
    /\ Len(Kinds({"duplicate"})) = 1

\* C10 witness: a slot repeated inside one item.
C10_WitnessInside ==
    /\ Validated
    /\ Len(declared) = 1
    /\ declared[1].storage_keys = <<1, 1>>
    /\ Len(Kinds({"duplicate"})) = 1

(* ------------------- validator: entry classification ------------------- *)

DeclaredAddrs == {declared[i].address : i \in DOMAIN declared}
\* the distinct slots declared under address a, over all its items
DeclSlotsOf(a) == UNION {Range(declared[i].storage_keys) :
                            i \in {j \in DOMAIN declared : declared[j].address = a}}
\* the slots the optimum lists under address a
OptSlotsOf(a) == UNION {Range(optimal.list[i].storage_keys) :
                           i \in {j \in DOMAIN optimal.list :
                                     optimal.list[j].address = a}}
\* the entries of the given kinds that the report carries for address a
EntriesFor(a, ks) ==
    SelectSeq(report.entries, LAMBDA e : e.address = a /\ e.kind \in ks)
\* warm-by-default as the validator's contract states it
WarmByDefault(a) ==
    a \in {tx_from, tx_to, coinbase} \/ a \in PRECOMPILE_FIRST..PRECOMPILE_LAST

\* C11: every distinct declared address that is tx_from, tx_to, coinbase or a
\* precompile gets exactly one Redundant entry, gas_waste = 2400 + 1900 per
\* distinct declared slot, and no Stale and no Incomplete entry, also when
\* the optimum lists that address.
C11_RedundantClassification ==
    Validated =>
        \A a \in DeclaredAddrs :
            WarmByDefault(a) =>
                /\ EntriesFor(a, {"redundant"})
                     = <<[kind |-> "redundant", address |-> a,
                          gas_waste |-> 2400 + 1900 * Cardinality(DeclSlotsOf(a))]>>
                /\ EntriesFor(a, {"stale", "incomplete"}) = <<>>

\* C11 witness: a declared precompile with two distinct slots is Redundant.
C11_Witness ==
    /\ Validated
    /\ PRECOMPILE_LAST \in DeclaredAddrs
    /\ PRECOMPILE_LAST \notin {tx_from, tx_to, coinbase}
    /\ Cardinality(DeclSlotsOf(PRECOMPILE_LAST)) = 2
    /\ Len(EntriesFor(PRECOMPILE_LAST, {"redundant"})) = 1

\* C11 witness of the last clause: the declared warm address is in the optimum.
C11_WitnessInOptimum ==
    /\ Validated
    /\ \E a \in DeclaredAddrs \cap ListAddrs :
          /\ WarmByDefault(a)
          /\ OptSlotsOf(a) # DeclSlotsOf(a)
          /\ Len(EntriesFor(a, {"redundant"})) = 1

\* C12: for a declared address that is not warm-by-default and is in the
\* optimum, there is an Incomplete entry exactly when an optimal slot is not
\* declared (those slots, 2000 each) and a Stale entry exactly when a
\* declared slot is not optimal (those slots, 1900 each); never more than one
\* of each, and none when the slot sets agree.
C12_SlotDiff ==
    Validated =>
        \A a \in DeclaredAddrs \cap ListAddrs :
            ~WarmByDefault(a) =>
                LET miss == OptSlotsOf(a) \ DeclSlotsOf(a)
                    extra == DeclSlotsOf(a) \ OptSlotsOf(a)
                    inc == EntriesFor(a, {"incomplete"})
                    st == EntriesFor(a, {"stale"})
                IN /\ Len(inc) = (IF miss = {} THEN 0 ELSE 1)
                   /\ Len(st) = (IF extra = {} THEN 0 ELSE 1)
                   /\ miss # {} =>
                        /\ Range(inc[1].missing_slots) = miss
                        /\ Len(inc[1].missing_slots) = Cardinality(miss)
                        /\ inc[1].gas_waste = 2000 * Cardinality(miss)
                   /\ extra # {} =>
                        /\ Range(st[1].storage_keys) = extra
                        /\ Len(st[1].storage_keys) = Cardinality(extra)
                        /\ st[1].gas_waste = 1900 * Cardinality(extra)

\* C12 witness: one address gets an Incomplete and a Stale entry.
C12_Witness ==
    /\ Validated
    /\ \E a \in DeclaredAddrs \cap ListAddrs :
          /\ ~WarmByDefault(a)
          /\ Len(EntriesFor(a, {"incomplete"})) = 1
          /\ Len(EntriesFor(a, {"stale"})) = 1

\* C12 witness: equal slot sets, no entry for the address.
C12_WitnessEqual ==
    /\ Validated
    /\ \E a \in DeclaredAddrs \cap ListAddrs :
          /\ ~WarmByDefault(a)
          /\ DeclSlotsOf(a) = OptSlotsOf(a)
          /\ DeclSlotsOf(a) # {}
          /\ EntriesFor(a, {"incomplete", "stale"}) = <<>>

\* C13: a declared address that is not warm-by-default and is absent from
\* the optimum gets exactly one Stale entry carrying all its distinct
\* declared slots, gas_waste = 2400 + 1900 per distinct slot.
C13_StaleAddress ==
    Validated =>
        \A a \in DeclaredAddrs \ ListAddrs :
            ~WarmByDefault(a) =>
                LET st == EntriesFor(a, {"stale"}) IN
                /\ Len(st) = 1
                /\ Range(st[1].storage_keys) = DeclSlotsOf(a)
                /\ Len(st[1].storage_keys) = Cardinality(DeclSlotsOf(a))
                /\ st[1].gas_waste = 2400 + 1900 * Cardinality(DeclSlotsOf(a))

\* C13 witness: a stale address declared in two items with a repeated slot.
C13_Witness ==
    /\ Validated
    /\ Len(declared) = 2
    /\ declared[1].address = declared[2].address
    /\ declared[1].address \notin ListAddrs
    /\ ~WarmByDefault(declared[1].address)
    /\ declared[1].storage_keys = <<1, 2>>
    /\ declared[2].storage_keys = <<2>>
    /\ Len(EntriesFor(declared[1].address, {"stale"})) = 1

\* C13 witness: a stale address declared without slots costs 2400.
C13_WitnessNoSlots ==
    /\ Validated
    /\ \E a \in DeclaredAddrs \ ListAddrs :
          /\ ~WarmByDefault(a)
          /\ DeclSlotsOf(a) = {}
          /\ EntriesFor(a, {"stale"})
               = <<[kind |-> "stale", address |-> a, storage_keys |-> <<>>,
                    gas_waste |-> 2400]>>

\* C14: every address of the optimum that no declared item carries gets
\* exactly one Missing entry with all its optimal slots, gas_waste = 2000 per
\* slot; an address that is declared, even without slots, gets none.
C14_MissingClassification ==
    Validated =>
        /\ \A a \in ListAddrs \ DeclaredAddrs :
              LET ms == EntriesFor(a, {"missing"}) IN
              /\ Len(ms) = 1
              /\ Range(ms[1].storage_keys) = OptSlotsOf(a)
              /\ Len(ms[1].storage_keys) = Cardinality(OptSlotsOf(a))
              /\ ms[1].gas_waste = 2000 * Cardinality(OptSlotsOf(a))
        /\ \A a \in DeclaredAddrs : EntriesFor(a, {"missing"}) = <<>>

\* C14 witness: two missing addresses, one of them with two slots.
C14_Witness ==
    /\ Validated
    /\ Len(optimal.list) = 2
    /\ Len(optimal.list[1].storage_keys) = 2
    /\ DeclaredAddrs \cap ListAddrs = {}
    /\ Len(Kinds({"missing"})) = 2

\* C14 witness: an optimal address with slots is declared without slots.
C14_WitnessDeclaredNoSlots ==
    /\ Validated
    /\ \E a \in DeclaredAddrs \cap ListAddrs :
          /\ DeclSlotsOf(a) = {}
          /\ OptSlotsOf(a) # {}
          /\ EntriesFor(a, {"missing"}) = <<>>

(* ---------------------- validator: gas summary ------------------------- *)

\* 2400 per distinct address + 1900 per storage-key entry
ListCost(list) ==
    2400 * Cardinality({list[i].address : i \in DOMAIN list})
        + 1900 * SumKeys(list, Len(list))

\* C15: declared_list_cost is the gas cost of the raw declared list
\* (duplicate slots charged), optimal_list_cost that of the optimum, and
\* waste_per_tx is their signed difference, negative when the declared list
\* costs less; Missing and Incomplete gas_waste is no part of it.
C15_SignedWaste ==
    Validated =>
        /\ report.gas_summary.declared_list_cost = ListCost(declared)
        /\ report.gas_summary.optimal_list_cost = ListCost(optimal.list)
        /\ report.gas_summary.waste_per_tx
             = ListCost(declared) - ListCost(optimal.list)

\* C15 witness: an under-declared list, Incomplete entry, negative waste.
C15_Witness ==
    /\ Validated
    /\ HasKind({"incomplete"})
    /\ ~HasKind({"stale", "redundant", "duplicate", "missing"})
    /\ report.gas_summary.waste_per_tx = 0 - 1900

RECURSIVE SumNoList(_)
SumNoList(S) ==
    IF S = {} THEN 0
    ELSE LET a == CHOOSE x \in S : TRUE
         IN 2600 + 2100 * Cardinality(OptSlotsOf(a)) + SumNoList(S \ {a})

\* C16: no_list_cost is the sum, over the distinct addresses of the optimum,
\* of 2600 + 2100 per distinct slot, whatever the declared list is, and
\* savings_vs_no_list = no_list_cost - optimal_list_cost.
C16_NoListCost ==
    Validated =>
        /\ report.gas_summary.no_list_cost = SumNoList(ListAddrs)
        /\ report.gas_summary.savings_vs_no_list
             = SumNoList(ListAddrs) - ListCost(optimal.list)

\* C16 witness: an optimum of two addresses, three slots in all, and a
\* declared list that differs from it.
C16_Witness ==
    /\ Validated
    /\ Len(optimal.list) = 2
    /\ SumKeys(optimal.list, 2) = 3
    /\ declared # optimal.list
    /\ declared # <<>>
    /\ report.gas_summary.no_list_cost = 2 * 2600 + 3 * 2100

(* ------------------ validator: duplicates as findings ------------------ *)

SplitAddress ==
    \E i, j \in DOMAIN declared : i # j /\ declared[i].address = declared[j].address
RepeatedSlot ==
    LET pairs == DeclaredPairs(declared, Len(declared))
    IN Len(pairs) # Cardinality(Range(pairs))

\* C17 (as claimed): a declared list with the same address in two items, or
\* with the same slot twice under one address, gives a report with at least
\* one entry and is_valid = false.
C17_DuplicatesAreDiscrepancies ==
    (Validated /\ (SplitAddress \/ RepeatedSlot))
        => (report.entries # <<>> /\ ~report.is_valid)

\* C17 (amended): a declared list with the same slot twice under one address
\* (inside one item or across items of that address) gives a report with a
\* Duplicate entry and is_valid = false.
C17_RepeatedSlotIsDiscrepancy ==
    (Validated /\ RepeatedSlot)
        => (HasKind({"duplicate"}) /\ ~report.is_valid)

\* C17 witness: the repeat is across two items of one address that
\* otherwise match the optimum.
C17_Witness ==
    /\ Validated
    /\ Len(declared) = 2
    /\ declared[1].address = declared[2].address
    /\ declared[1].storage_keys = <<1>>
    /\ declared[2].storage_keys = <<1>>
    /\ Len(report.entries) = 1
    /\ ~report.is_valid

(* ==================== properties: library entry points ================= *)

Invocations == {calls[k] : k \in 1..Len(calls)}

IsReport(v) == DOMAIN v = {"entries", "gas_summary", "optimal_list", "is_valid"}

ExecutionFails == env.execution \in {"db_error", "invalid_tx"}

\* C18: for a transaction whose nonce does not match the sender's nonce,
\* generate and validate return Err(EvmExecution) and no report, while
\* validate_replay skips the nonce check and, the transaction being
\* executable otherwise, returns Ok with a report.
C18_NonceCheckByEntryPoint ==
    \A c \in Invocations :
        ~env.nonce_ok =>
            /\ c.entry \in {"generate", "validate"}
                   => c.result = Err("EvmExecution")
            /\ (c.entry = "validate_replay" /\ ~ExecutionFails)
                   => (c.result.tag = "Ok" /\ IsReport(c.result.value))

\* C18 witness: validate_replay on a wrong-nonce transaction reports
\* discrepancies of a declared list.
C18_Witness ==
    /\ pc = "called"
    /\ ~env.nonce_ok
    /\ calls[1].entry = "validate_replay"
    /\ calls[1].result.tag = "Ok"
    /\ calls[1].result.value.entries # <<>>

\* C18 witness: validate refuses the same kind of transaction although it
\* would have run to success.
C18_WitnessRefused ==
    /\ pc = "called"
    /\ ~env.nonce_ok
    /\ env.execution = "success"
    /\ calls[1].entry = "validate"
    /\ calls[1].result = Err("EvmExecution")

\* C19: when the transaction passes validation and ends in a revert or an
\* exceptional halt such as out of gas, generate_access_list returns Ok with
\* the recorded accesses and success = false, and so the entry point returns
\* Ok; an Err is always EvmExecution and comes only from a state-database
\* error or an invalid transaction (a nonce mismatch included).
C19_HaltsAreNotFailures ==
    \A c \in Invocations :
        /\ ( /\ env.execution \in {"revert", "halt"}
             /\ env.nonce_ok \/ c.entry = "validate_replay" )
               => /\ c.traced.tag = "Ok"
                  /\ c.traced.value.access_list = env.trace
                  /\ c.traced.value.success = FALSE
                  /\ c.result.tag = "Ok"
        /\ c.result.tag = "Err"
               => /\ c.result.error = "EvmExecution"
                  /\ ExecutionFails \/ ~env.nonce_ok
        /\ (c.traced.tag = "Ok" /\ c.traced.value.success)
               => env.execution = "success"

\* C19 witness: a reverting transaction yields a non-empty list from generate.
C19_Witness ==
    /\ pc = "called"
    /\ env.execution = "revert"
    /\ calls[1].entry = "generate"
    /\ calls[1].traced.tag = "Ok"
    /\ ~calls[1].traced.value.success
    /\ calls[1].result.tag = "Ok"
    /\ calls[1].result.value.list # <<>>

\* C19 witness: a transaction that runs out of gas still gets a report.
C19_WitnessHalt ==
    /\ pc = "called"
    /\ env.execution = "halt"
    /\ env.trace # <<>>
    /\ calls[1].entry = "validate"
    /\ calls[1].traced.tag = "Ok"
    /\ ~calls[1].traced.value.success
    /\ calls[1].result.tag = "Ok"
    /\ IsReport(calls[1].result.value)

C20_WitnessReport ==
    /\ pc = "repeated"
    /\ calls[1].entry \in {"validate", "validate_replay"}
    /\ calls[1].traced.tag = "Ok"
    /\ calls[1].traced.value.created_contracts
           # calls[2].traced.value.created_contracts
    /\ calls[1].result.tag = "Ok"
    /\ calls[1].result.value.entries # <<>>
    /\ calls[1].result.value.optimal_list # <<>>

(* ================= properties: optimum against the validator =========== *)

\* C27 (as claimed): validating the list returned by optimize as the
\* declared list, against that optimum and the same context, gives a report
\* with no entries, is_valid = true and waste_per_tx = 0.
C27_OptimumAccepted ==
    (Validated /\ declared = optimal.list)
        => /\ report.entries = <<>>
           /\ report.is_valid
           /\ report.gas_summary.waste_per_tx = 0

\* C27 restricted to optima that list no address the validator treats as
\* warm-by-default.
C27_OptimumAcceptedNoWarmOptimum ==
    (/\ Validated
     /\ declared = optimal.list
     /\ \A a \in ListAddrs : ~IsWarmDeclared(a, tx_from, tx_to, coinbase))
        => /\ report.entries = <<>>
           /\ report.is_valid
           /\ report.gas_summary.waste_per_tx = 0

\* a two-item optimum declared as it is and accepted
C27_AcceptedOptimum ==
    /\ Validated
    /\ declared = optimal.list
    /\ Len(optimal.list) = 2
    /\ optimal.list[1].storage_keys # <<>>
    /\ report.is_valid

Entries == Range(report.entries)

\* a Stale entry for an address the optimum does not list carries the
\* address cost in its gas_waste; one for surplus slots of a shared address
\* carries the slot costs only
IsStaleAddress(e) ==
    /\ e.kind = "stale"
    /\ e.gas_waste = ACCESS_LIST_ADDRESS_COST
                     + ACCESS_LIST_STORAGE_KEY_COST * Len(e.storage_keys)

\* the addresses of the declared map after applying the diff
RebuiltAddrs ==
    (DeclaredAddrs
        \ {e.address : e \in {x \in Entries :
                                 x.kind = "redundant" \/ IsStaleAddress(x)}})
    \cup {e.address : e \in {x \in Entries : x.kind = "missing"}}

\* the slots under address a after applying the diff
RebuiltSlotsOf(a) ==
    (DeclSlotsOf(a)
        \ UNION {Range(e.storage_keys) :
                    e \in {x \in Entries : x.kind = "stale" /\ x.address = a}})
    \cup UNION {Range(e.missing_slots) :
                   e \in {x \in Entries : x.kind = "incomplete" /\ x.address = a}}
    \cup UNION {Range(e.storage_keys) :
                   e \in {x \in Entries : x.kind = "missing" /\ x.address = a}}

DiffRebuildsOptimum ==
    /\ RebuiltAddrs = ListAddrs
    /\ \A a \in ListAddrs : RebuiltSlotsOf(a) = OptSlotsOf(a)

\* C28 (as claimed): the deduplicated declared map, without every Redundant
\* address, every Stale address and every Stale slot, and with every Missing
\* entry and the missing_slots of every Incomplete entry added, is the
\* optimal address-to-slots map.
C28_DiffReconstructsOptimum ==
    Validated => DiffRebuildsOptimum

\* C28 restricted to optima that list no address the validator treats as
\* warm-by-default.
C28_DiffReconstructsNoWarmOptimum ==
    (/\ Validated
     /\ \A a \in ListAddrs : ~IsWarmDeclared(a, tx_from, tx_to, coinbase))
        => DiffRebuildsOptimum

\* a report with Incomplete and Stale for one address and a Missing entry,
\* whose diff rebuilds the optimum
C28_RebuiltFromMixedDiff ==
    /\ Validated
    /\ HasKind({"incomplete"})
    /\ HasKind({"stale"})
    /\ HasKind({"missing"})
    /\ DiffRebuildsOptimum

(* ===================== properties: savings identities ================== *)

OptimalSlotCount == SumKeys(optimal.list, Len(optimal.list))

\* what the net-savings identities of the gas model give for the optimum
NetSavings ==
    NET_SAVINGS_PER_ACCESSED_ADDRESS * Len(optimal.list)
    + NET_SAVINGS_PER_ACCESSED_SLOT * OptimalSlotCount

\* C30 (as claimed): savings_vs_no_list equals 200 gas per address plus 100
\* gas per storage slot of the optimal list.
C30_SavingsAgree ==
    Validated => report.gas_summary.savings_vs_no_list = NetSavings

\* savings_vs_no_list exceeds the net-savings identities by the warm read
\* cost of every slot of the optimum.
C30_SavingsExcess ==
    Validated =>
        report.gas_summary.savings_vs_no_list
            = NetSavings + WARM_STORAGE_READ_COST * OptimalSlotCount

\* an optimum of two addresses and three slots: 1000 reported, 700 by the
\* identities
C30_OverstatedSavings ==
    /\ Validated
    /\ Len(optimal.list) = 2
    /\ OptimalSlotCount = 3
    /\ NetSavings = 700
    /\ report.gas_summary.savings_vs_no_list = 1000

(* ======================= properties: entry order ======================= *)

\* the phase of the algorithm that emits an entry of this kind
Phase(e) == CASE e.kind = "duplicate" -> 1
              [] e.kind \in {"redundant", "incomplete", "stale"} -> 2
              [] e.kind = "missing" -> 3

Ascending(seq) == \A i, j \in DOMAIN seq : i < j => seq[i] < seq[j]

EntrySlots(e) == CASE e.kind = "incomplete" -> e.missing_slots
                   [] e.kind \in {"stale", "missing"} -> e.storage_keys
                   [] OTHER -> <<>>

\* C24: the entries come in phase order: the Duplicate entries first, in the
\* order the repeated slots are met in the declared list; then, per declared
\* address in ascending order, its Redundant entry or its Incomplete entry
\* followed by its Stale entry; then the Missing entries in ascending address
\* order; the slots inside an entry ascend.
C24_EntryOrder ==
    Validated =>
        LET es == report.entries
            pairs == DeclaredPairs(declared, Len(declared))
            rep == RepeatedPairs(pairs)
            dups == Kinds({"duplicate"})
        IN /\ \A i, j \in DOMAIN es :
                 i < j =>
                    /\ Phase(es[i]) <= Phase(es[j])
                    /\ (Phase(es[i]) = 2 /\ Phase(es[j]) = 2)
                          => \/ es[i].address < es[j].address
                             \/ /\ es[i].address = es[j].address
                                /\ es[i].kind = "incomplete"
                                /\ es[j].kind = "stale"
                    /\ (Phase(es[i]) = 3 /\ Phase(es[j]) = 3)
                          => es[i].address < es[j].address
           /\ Len(dups) = Len(rep)
           /\ \A k \in DOMAIN dups :
                 <<dups[k].address, dups[k].storage_key>> = rep[k]
           /\ \A i \in DOMAIN es : Ascending(EntrySlots(es[i]))

\* C24 witness: all three phases in one report, the declared address behind
\* the Missing one in address order.
C24_Witness ==
    /\ Validated
    /\ Len(report.entries) = 3
    /\ report.entries[1].kind = "duplicate"
    /\ report.entries[2].kind \in {"redundant", "stale"}
    /\ report.entries[3].kind = "missing"
    /\ report.entries[3].address < report.entries[2].address
    /\ Len(report.entries[3].storage_keys) = 2

\* C24 witness: Incomplete then Stale for one address, after the entry of a
\* lower address that was declared later.
C24_WitnessSameAddress ==
    /\ Validated
    /\ Len(declared) = 2
    /\ declared[2].address < declared[1].address
    /\ Len(report.entries) = 3
    /\ report.entries[1].address = declared[2].address
    /\ report.entries[2].kind = "incomplete"
    /\ report.entries[3].kind = "stale"
    /\ report.entries[2].address = report.entries[3].address

\* C24 witness: two Duplicate entries of different addresses, in declared
\* order and against address order.
C24_WitnessDuplicates ==
    /\ Validated
    /\ Len(Kinds({"duplicate"})) = 2
    /\ report.entries[1].kind = "duplicate"
    /\ report.entries[2].kind = "duplicate"
    /\ report.entries[1].address > report.entries[2].address

(* ================ properties: entry points against each other ========== *)

\* C29: whenever validate returns Ok(report), validate_replay on the same
\* input returns Ok with an equal report and generate returns Ok with
\* report.optimal_list as its list; tx_to is the call target, or the zero
\* address for a creation.
C29_EntryPointsAgree ==
    \A c \in Invocations :
        (c.entry = "validate" /\ c.result.tag = "Ok") =>
            /\ \A v \in CreatedOrders(env) :
                  /\ lib_validate_replay(env, tx_from, coinbase, declared, v)
                        = c.result
                  /\ generate(env, tx_from, coinbase, v).tag = "Ok"
                  /\ generate(env, tx_from, coinbase, v).value.list
                        = c.result.value.optimal_list
            /\ tx_to = (IF env.kind.create THEN ZERO ELSE env.kind.to)
            /\ c.result.value
                 = validate(declared,
                            optimize(c.traced.value, tx_from, tx_to, coinbase),
                            tx_from, tx_to, coinbase)

\* C29 witness: validate succeeded on a call whose coinbase was traced and
\* stripped, with a non-empty optimum and a report with entries.
C29_Witness ==
    /\ pc = "called"
    /\ calls[1].entry = "validate"
    /\ calls[1].result.tag = "Ok"
    /\ ~env.kind.create
    /\ coinbase # ZERO
    /\ \E i \in DOMAIN env.trace : env.trace[i].address = coinbase
    /\ calls[1].result.value.optimal_list # <<>>
    /\ calls[1].result.value.entries # <<>>

\* C29 witness: the same for a creation transaction that created two
\* contracts.
C29_WitnessCreate ==
    /\ pc = "called"
    /\ calls[1].entry = "validate"
    /\ calls[1].result.tag = "Ok"
    /\ env.kind.create
    /\ Cardinality(env.created) = 2
    /\ tx_to = ZERO
    /\ calls[1].result.value.optimal_list # <<>>

(* ===================== properties: JSON round trip ===================== *)

LowercaseTags == {"missing", "stale", "incomplete", "redundant", "duplicate"}

\* C21: a report serialized to JSON and read back is an equal report, the
\* entries carry their lowercase kind tags in the JSON, and serializing the
\* decoded report gives the same JSON again.
C21_SerdeRoundTrip ==
    /\ pc \in {"serialized", "deserialized", "reserialized"}
          => /\ Len(wire.json.entries) = Len(report.entries)
             /\ \A k \in DOMAIN report.entries :
                   /\ wire.json.entries[k].kind \in LowercaseTags
                   /\ wire.json.entries[k].kind = report.entries[k].kind
                   /\ wire.json.entries[k].gas_waste = report.entries[k].gas_waste
             /\ wire.json.gas_summary.waste_per_tx = report.gas_summary.waste_per_tx
             /\ wire.json.gas_summary.savings_vs_no_list
                   = report.gas_summary.savings_vs_no_list
    /\ pc \in {"deserialized", "reserialized"} => wire.decoded = Ok(report)
    /\ pc = "reserialized" => wire.json2 = wire.json

\* C21 witness: a report with two entries of different kinds, negative signed
\* fields and a non-empty optimal list went through the round trip.
C21_Witness ==
    /\ pc = "reserialized"
    /\ Len(report.entries) = 2
    /\ report.entries[1].kind = "duplicate"
    /\ report.entries[2].kind = "incomplete"
    /\ report.entries[2].missing_slots = <<1, 2>>
    /\ report.gas_summary.waste_per_tx < 0
    /\ report.gas_summary.savings_vs_no_list < 0
    /\ report.optimal_list # <<>>
    /\ wire.json.entries[2].missing_slots = <<"0x01", "0x02">>
    /\ wire.json.optimal_list[1].address = ToHex(MaxAddr)

(* =================== properties: created-contract capture ============== *)

Inspecting == pc = "inspecting"

\* the create_end hooks the inspector has been given
CreateEnds ==
    {inspector.inner[k].outcome :
        k \in {i \in DOMAIN inspector.inner : inspector.inner[i].hook = "create_end"}}

\* C23 (as claimed): an address is in created_contracts only if a create_end
\* hook reported it for a creation that succeeded; step, call and create
\* hooks never change created_contracts.
C23_CreatedCapture ==
    Inspecting =>
        \A a \in inspector.created_contracts :
            \E o \in CreateEnds :
                o.result = "success" /\ o.address = Some(a)

\* created_contracts is exactly the set of addresses carried by the outcomes
\* given to create_end, whatever their result; no other hook adds to it.
C23_CapturedAreReported ==
    Inspecting =>
        inspector.created_contracts
            = {o.address.addr : o \in {x \in CreateEnds : x.address.some}}

\* a reverted creation whose outcome carried an address, after a step and a
\* create hook
C23_RevertedCreationCaptured ==
    /\ Inspecting
    /\ Len(inspector.inner) = 3
    /\ inspector.inner[1].hook = "step"
    /\ inspector.inner[2].hook = "create"
    /\ inspector.inner[3].hook = "create_end"
    /\ inspector.inner[3].outcome.result = "revert"
    /\ inspector.created_contracts # {}

(* ========================= properties: commands ======================== *)

Exited == pc = "exited"

C22_WitnessCompare ==
    /\ Exited
    /\ cli.command = "compare"
    /\ cli.obtained
    /\ ~report.is_valid
    /\ report.entries # <<>>
    /\ cli.exit_code = 0

\* C25 (as claimed): the state compare reads for the replay is the chain
\* state from before the transaction's block was applied.
C25_ReplayPreState ==
    (Exited /\ cli.command = "compare" /\ cli.state_block # 0)
        => StateAfter(cli.state_block) < cli.in.tx_block

\* the state compare reads is the one after the transaction's own block
C25_ReplayReadsOwnBlock ==
    (Exited /\ cli.command = "compare" /\ cli.state_block # 0)
        => StateAfter(cli.state_block) = cli.in.tx_block

\* a replay that obtained a report from the state after the block
C25_ReplayedOnPostState ==
    /\ Exited
    /\ cli.command = "compare"
    /\ cli.obtained
    /\ cli.in.tx_block > BERLIN_BLOCK
    /\ cli.state_block = cli.in.tx_block

(* ========================= properties: prefetch ======================== *)

HasRead == pc = "read"

\* C26 (as claimed): every account and slot the EVM reads from the
\* pre-warmed database has the value the node holds at state_block, on the
\* prestate path and on the fallback path, failed fetches included.
C26_PrefetchTransparent ==
    HasRead => db.read.got = db.read.node_value

\* C26 restricted to builds in which no fetch of the fallback path failed.
C26_TransparentWithoutFailedFetch ==
    (HasRead /\ (db.in.prestate_ok \/ db.in.failing = {}))
        => db.read.got = db.read.node_value

\* a fallback build whose storage fetch failed: the slot reads as zero
C26_FailedFetchReadsZero ==
    /\ HasRead
    /\ ~db.in.prestate_ok
    /\ db.in.failing = {"storage"}
    /\ db.read.kind = "storage"
    /\ db.read.node_value = 1
    /\ db.read.got = 0

\* a miss falls through: an address nobody hinted reads as the node has it
C26_MissFallsThrough ==
    /\ HasRead
    /\ ~db.in.prestate_ok
    /\ db.in.failing = FetchKinds
    /\ db.read.addr \notin DOMAIN db.cache.accounts
    /\ db.read.kind = "basic"
    /\ db.read.got = LiveAccount

====
